---- MODULE Spec2Model ----
(***************************************************************************)
(* Model of the websocket fan-out relay of shredr-backend:                 *)
(*   - main.rs creates one tokio watch channel (tx, rx) and one            *)
(*     Arc<Mutex<usize>> clients_count;                                    *)
(*   - helius_webhook_handler (webhook.rs) publishes with tx.send;         *)
(*   - websocket() (websocket.rs) runs one session per connection:         *)
(*     increment under the mutex, clone rx, spawn send_task and recv_task, *)
(*     select! on the two join handles, abort the other, decrement.        *)
(* A tokio task that is aborted stops at its next suspension point; until  *)
(* then it keeps running on its worker thread.                             *)
(***************************************************************************)
EXTENDS Integers, Sequences, FiniteSets, TLC

\* ---------------------------------------------------------------- bounds
NumSessions == 2
MaxPublish == 3
LivePublish == 2
MaxCount == 20
MaxBlobLen == 2052

Sessions == 1..NumSessions
Payloads == {"abc"}

VARIABLES
    clients_count,  \* the usize behind state.clients_count
    holder,         \* the sessions holding a MutexGuard of clients_count
    count,          \* count[s]: the value session s loaded through its guard
    pc,             \* pc[s]: position of the session's websocket() future
    winner,         \* winner[s]: the select! branch that ran ("none" before)
    send_task,      \* send_task[s]: position of the spawned outbound loop
    recv_task,      \* recv_task[s]: position of the spawned inbound loop
    rx,             \* rx[s]: version last seen by the session's receiver clone
    msg,            \* msg[s]: the message cloned out of rx.borrow()
    wire,           \* wire[s]: text frames written to the peer, in order
    slot,           \* the value stored in the watch channel
    version,        \* the watch channel's version counter
    tx,             \* TRUE while the watch::Sender is alive
    refs,           \* sessions holding a watch::Ref (read lock on the slot)
    published,      \* history: the messages accepted by tx.send, in order
    response,       \* status code of the last helius_webhook_handler answer, 0 before
    reads,          \* history: reads[s] = channel version at each rx.borrow()
    decrements,     \* history: decrements[s] = decrements applied by s
    inStep,         \* history: s was parked and up to date at every publish
    encrypted_blob, \* create_blob: encrypted_blob.len() of the call's argument
    inserts,        \* create_blob: INSERT statements sent to the pool
    result          \* create_blob: what the call returned, NoResult before

vars == <<clients_count, holder, count, pc, winner, send_task, recv_task, rx,
          msg, wire, slot, version, tx, refs, published, response, reads,
          decrements, inStep, encrypted_blob, inserts, result>>

sessionVars == <<clients_count, holder, count, pc, winner, decrements>>
sendVars == <<send_task, rx, msg, wire, reads>>
recvVars == <<recv_task>>
chanVars == <<slot, version, tx, refs, published, response, inStep>>
dbVars == <<encrypted_blob, inserts, result>>

\* ------------------------------------------------------------- messages
\* WebSocketMessage::Status { clients_count, timestamp }
Status(n, t) == [type |-> "status", clients_count |-> n, timestamp |-> t]

\* WebSocketMessage::Transaction { data, timestamp }
Transaction(d, t) == [type |-> "transaction", data |-> d, timestamp |-> t]

NoMsg == [type |-> "none"]

\* main.rs: the value the channel is created with
initial_message == Status(0, 0)

\* WebSocketMessage::to_text: the serde_json text of the internally tagged enum
to_text(m) ==
    IF m.type = "transaction"
    THEN <<"type", "transaction", "data", m.data, "timestamp", m.timestamp>>
    ELSE <<"type", "status", "clients_count", m.clients_count,
           "timestamp", m.timestamp>>

\* position of a frame in the publish order (0 for a status frame): the
\* handler stamps the k-th accepted message with k
PublishIndex(frame) == IF frame[2] = "transaction" THEN frame[6] ELSE 0

\* ------------------------------------------------------------- db.rs
\* pub const MAX_BLOB_SIZE: usize = 2048
MAX_BLOB_SIZE == 2048

NoResult == [ok |-> FALSE, error |-> "none"]

\* Err(format!("Blob too large: {} bytes (max {} bytes)", len, MAX_BLOB_SIZE))
BlobTooLarge(len) ==
    [ok |-> FALSE, error |-> "Blob too large", bytes |-> len, max |-> MAX_BLOB_SIZE]

\* .map_err(|e| format!("Failed to create blob: {}", e))?
FailedToCreate == [ok |-> FALSE, error |-> "Failed to create blob"]

\* Ok(NonceBlob { id, encrypted_blob, created_at })
Created(len) == [ok |-> TRUE, error |-> "none", bytes |-> len]

TooLarge_Inclusive(len) == len >= MAX_BLOB_SIZE

\* if encrypted_blob.len() > MAX_BLOB_SIZE
TooLarge(len) == len > MAX_BLOB_SIZE

\* DbHandler::create_blob: the size check, then the INSERT, which the
\* database accepts or refuses
create_blob ==
    /\ result = NoResult
    /\ IF TooLarge(encrypted_blob)
       THEN /\ result' = BlobTooLarge(encrypted_blob)
            /\ UNCHANGED inserts
       ELSE /\ inserts' = inserts + 1
            /\ result' \in {Created(encrypted_blob), FailedToCreate}
    /\ UNCHANGED encrypted_blob
    /\ UNCHANGED <<sessionVars, sendVars, recvVars, chanVars>>

\* ------------------------------------------------------------ the channel
StateReceivers_Dropped == {}

\* receivers held outside the sessions: ws_state.rx lives as long as the router
StateReceivers == {"ws_state.rx"}

\* sessions whose receiver clone is alive (owned by a live send_task future)
LiveClones == {s \in Sessions : send_task[s] \in {"changed", "borrow", "send"}}

\* watch::Sender::receiver_count
receiver_count == Cardinality(StateReceivers) + Cardinality(LiveClones)

CloneVersion_Unseen == version - 1

\* the version a Receiver::clone of state.rx starts with: state.rx is never
\* advanced, so it is the version the channel was created with
CloneVersion == 0

Init ==
    /\ clients_count = 0
    /\ holder = {}
    /\ count = [s \in Sessions |-> 0]
    /\ pc = [s \in Sessions |-> "connect"]
    /\ winner = [s \in Sessions |-> "none"]
    /\ send_task = [s \in Sessions |-> "none"]
    /\ recv_task = [s \in Sessions |-> "none"]
    /\ msg = [s \in Sessions |-> NoMsg]
    /\ wire = [s \in Sessions |-> <<>>]
    /\ slot = initial_message
    /\ version = 0
    /\ rx = [s \in Sessions |-> CloneVersion]
    /\ tx = TRUE
    /\ refs = {}
    /\ published = <<>>
    /\ response = 0
    /\ reads = [s \in Sessions |-> <<>>]
    /\ decrements = [s \in Sessions |-> 0]
    /\ inStep = [s \in Sessions |-> TRUE]
    /\ encrypted_blob = 0
    /\ inserts = 0
    /\ result = NoResult

\* ------------------------------------------------- helius_webhook_handler
\* an iteration of the outbound loop of s completed since the last publish
CompletedIteration(s) ==
    /\ send_task[s] = "changed"
    /\ rx[s] = version
    /\ reads[s] # <<>>
    /\ reads[s][Len(reads[s])] = version
    /\ Len(wire[s]) = Len(reads[s])

NewSlot_KeepUnread(m) ==
    IF \E s \in LiveClones : rx[s] # version THEN slot ELSE m

\* watch::Sender::send stores the new value in place of the old one
NewSlot(m) == m

NextVersion_NoNotify == version

\* watch::Sender::send bumps the version and wakes every receiver
NextVersion == version + 1

\* tx.send(ws_message): Err(SendError) when no receiver is left, else the
\* value is replaced under the slot's write lock; then the handler's answer
helius_webhook_handler(d) ==
    /\ tx
    /\ Len(published) < MaxPublish
    /\ refs = {}
    /\ LET ws_message == Transaction(d, Len(published) + 1) IN
       IF receiver_count = 0
       THEN /\ response' = 500
            /\ UNCHANGED <<slot, version, published, inStep>>
       ELSE /\ slot' = NewSlot(ws_message)
            /\ version' = NextVersion
            /\ published' = Append(published, ws_message)
            /\ response' = 200
            /\ inStep' = [s \in Sessions |->
                   inStep[s] /\ (published = <<>> \/ CompletedIteration(s))]
    /\ UNCHANGED <<tx, refs>>
    /\ UNCHANGED <<sessionVars, sendVars, recvVars>>
    /\ UNCHANGED dbVars

Publish == \E d \in Payloads : helius_webhook_handler(d)

\* the router (and with it WebhookState.tx) is dropped: the channel closes
DropSender ==
    /\ tx
    /\ tx' = FALSE
    /\ UNCHANGED <<slot, version, refs, published, response, inStep>>
    /\ UNCHANGED <<sessionVars, sendVars, recvVars>>
    /\ UNCHANGED dbVars

\* ------------------------------------------------- websocket(): the session
MutexFree_NoExclusion == TRUE

\* tokio Mutex: lock().await completes only while no guard is alive
MutexFree == holder = {}

Unlock_Leaked(s) == holder

\* the MutexGuard is dropped at the end of the block that locked
Unlock(s) == holder \ {s}

AfterLock_SpawnFirst == "spawn"

\* the increment block comes before state.rx.clone() and the two spawns
AfterLock == "increment"

\* state.clients_count.lock().await, then the load of `*count += 1`
LockIncrement(s) ==
    /\ pc[s] = "connect"
    /\ MutexFree
    /\ holder' = holder \cup {s}
    /\ count' = [count EXCEPT ![s] = clients_count]
    /\ pc' = [pc EXCEPT ![s] = AfterLock]
    /\ UNCHANGED <<clients_count, winner, decrements>>
    /\ UNCHANGED <<sendVars, recvVars, chanVars>>
    /\ UNCHANGED dbVars

\* the store of `*count += 1`; the guard is dropped at the end of the block
Increment(s) ==
    /\ pc[s] = "increment"
    /\ clients_count' = count[s] + 1
    /\ holder' = Unlock(s)
    /\ count' = [count EXCEPT ![s] = 0]
    /\ pc' = [pc EXCEPT ![s] = "spawn"]
    /\ UNCHANGED <<winner, decrements>>
    /\ UNCHANGED <<sendVars, recvVars, chanVars>>
    /\ UNCHANGED dbVars

\* state.rx.clone(), tokio::spawn(send_task), tokio::spawn(recv_task)
Spawn(s) ==
    /\ pc[s] = "spawn"
    /\ rx' = [rx EXCEPT ![s] = CloneVersion]
    /\ send_task' = [send_task EXCEPT ![s] = "changed"]
    /\ recv_task' = [recv_task EXCEPT ![s] = "next"]
    /\ pc' = [pc EXCEPT ![s] = "select"]
    /\ UNCHANGED <<clients_count, holder, count, winner, decrements>>
    /\ UNCHANGED <<msg, wire, reads, chanVars>>
    /\ UNCHANGED dbVars

AfterRecvExit_Return == "closed"

\* after either select! branch the function falls through to the decrement
AfterRecvExit == "disconnect"

\* select! branch `_ = (&mut send_task) => recv_task.abort()`
SelectSendTask(s) ==
    /\ pc[s] = "select"
    /\ send_task[s] = "done"
    /\ winner' = [winner EXCEPT ![s] = "send_task"]
    /\ pc' = [pc EXCEPT ![s] = "disconnect"]
    /\ UNCHANGED <<clients_count, holder, count, decrements>>
    /\ UNCHANGED <<sendVars, recvVars, chanVars>>
    /\ UNCHANGED dbVars

\* select! branch `_ = (&mut recv_task) => send_task.abort()`
SelectRecvTask(s) ==
    /\ pc[s] = "select"
    /\ recv_task[s] = "done"
    /\ winner' = [winner EXCEPT ![s] = "recv_task"]
    /\ pc' = [pc EXCEPT ![s] = AfterRecvExit]
    /\ UNCHANGED <<clients_count, holder, count, decrements>>
    /\ UNCHANGED <<sendVars, recvVars, chanVars>>
    /\ UNCHANGED dbVars

\* state.clients_count.lock().await, then the load of `*count -= 1`
LockDecrement(s) ==
    /\ pc[s] = "disconnect"
    /\ MutexFree
    /\ holder' = holder \cup {s}
    /\ count' = [count EXCEPT ![s] = clients_count]
    /\ pc' = [pc EXCEPT ![s] = "decrement"]
    /\ UNCHANGED <<clients_count, winner, decrements>>
    /\ UNCHANGED <<sendVars, recvVars, chanVars>>
    /\ UNCHANGED dbVars

\* usize::MAX, the value a wrapping `0 - 1` stores. TLC's integers are 32-bit,
\* so the model keeps the largest value they hold in place of 2^64 - 1
USIZE_MAX == 2147483647

\* `*count -= 1` on a usize: above zero it subtracts; at zero it panics
\* ("attempt to subtract with overflow") in a build with overflow checks and
\* wraps to usize::MAX in a build without them
SubAssign(c) ==
    IF c > 0
    THEN {[panic |-> FALSE, value |-> c - 1]}
    ELSE {[panic |-> TRUE, value |-> c], [panic |-> FALSE, value |-> USIZE_MAX]}

\* the store of `*count -= 1`; the guard is dropped and websocket() returns
\* (or unwinds: the guard is dropped without a store)
Decrement(s) ==
    /\ pc[s] = "decrement"
    /\ \E o \in SubAssign(count[s]) :
           /\ clients_count' = o.value
           /\ decrements' = [decrements EXCEPT ![s] = IF o.panic THEN @ ELSE @ + 1]
           /\ pc' = [pc EXCEPT ![s] = IF o.panic THEN "panicked" ELSE "closed"]
    /\ holder' = Unlock(s)
    /\ count' = [count EXCEPT ![s] = 0]
    /\ UNCHANGED winner
    /\ UNCHANGED <<sendVars, recvVars, chanVars>>
    /\ UNCHANGED dbVars

\* abort() was called on the task: it is cancelled at its next suspension
SendAborted(s) == winner[s] = "recv_task"
RecvAborted_Never(s) == FALSE

\* recv_task.abort() in the send_task branch of select!
RecvAborted(s) == winner[s] = "send_task"

\* ------------------------------------------------------------- send_task
\* rx.changed().await returns Ok(()): the version differs from the one seen
Changed(s) ==
    /\ send_task[s] = "changed"
    /\ rx[s] # version
    /\ rx' = [rx EXCEPT ![s] = version]
    /\ send_task' = [send_task EXCEPT ![s] = "borrow"]
    /\ UNCHANGED <<msg, wire, reads>>
    /\ UNCHANGED <<sessionVars, recvVars, chanVars>>
    /\ UNCHANGED dbVars

AfterChannelClosed_KeepWaiting == "changed"

\* `while let Ok(()) = rx.changed().await` ends on Err: the task finishes
AfterChannelClosed == "done"

\* rx.changed().await returns Err: nothing new and the sender is gone
ChangedClosed(s) ==
    /\ send_task[s] = "changed"
    /\ rx[s] = version
    /\ ~tx
    /\ send_task' = [send_task EXCEPT ![s] = AfterChannelClosed]
    /\ UNCHANGED <<rx, msg, wire, reads>>
    /\ UNCHANGED <<sessionVars, recvVars, chanVars>>
    /\ UNCHANGED dbVars

RefsAfterBorrow_Held(s) == refs \cup {s}

\* `rx.borrow().clone()`: the Ref is a temporary, dropped with the statement
RefsAfterBorrow(s) == refs \ {s}

\* let msg = rx.borrow().clone(): reads the slot, leaves the seen version
Borrow(s) ==
    /\ send_task[s] = "borrow"
    /\ msg' = [msg EXCEPT ![s] = slot]
    /\ refs' = RefsAfterBorrow(s)
    /\ reads' = [reads EXCEPT ![s] = Append(@, version)]
    /\ send_task' = [send_task EXCEPT ![s] = "send"]
    /\ UNCHANGED <<rx, wire>>
    /\ UNCHANGED <<sessionVars, recvVars>>
    /\ UNCHANGED <<slot, version, tx, published, response, inStep>>
    /\ UNCHANGED dbVars

Transmit_Unordered(frames, text) == <<text>> \o frames

\* SplitSink::send: the frame goes out after the frames sent before it
Transmit(frames, text) == Append(frames, text)

Sink_Shared(s) == CHOOSE t \in Sessions : TRUE

\* socket.split(): each websocket() call writes to the sink of its own socket
Sink(s) == s

\* a sink carries one send at a time: the sends of other sinks do not count
SinkFree(s) ==
    \A t \in Sessions \ {s} : send_task[t] = "send" => Sink(t) # Sink(s)

\* sender.send(Message::Text(text)).await returns Ok
SendOk(s) ==
    /\ send_task[s] = "send"
    /\ SinkFree(s)
    /\ wire' = [wire EXCEPT ![s] = Transmit(@, to_text(msg[s]))]
    /\ msg' = [msg EXCEPT ![s] = NoMsg]
    /\ send_task' = [send_task EXCEPT ![s] = "changed"]
    /\ UNCHANGED <<rx, reads>>
    /\ UNCHANGED <<sessionVars, recvVars, chanVars>>
    /\ UNCHANGED dbVars

AfterSendErr_EveryLoop(s) ==
    [t \in Sessions |->
        IF send_task[t] \in {"changed", "borrow", "send"}
        THEN "done"
        ELSE send_task[t]]

\* `break` leaves the loop of the task whose send failed, and no other
AfterSendErr(s) == [send_task EXCEPT ![s] = "done"]

\* sender.send(...).await returns Err: break
SendErr(s) ==
    /\ send_task[s] = "send"
    /\ msg' = [msg EXCEPT ![s] = NoMsg]
    /\ send_task' = AfterSendErr(s)
    /\ UNCHANGED <<rx, wire, reads>>
    /\ UNCHANGED <<sessionVars, recvVars, chanVars>>
    /\ UNCHANGED dbVars

\* the aborted send_task reaches a pending await and is dropped
CancelSend(s) ==
    /\ SendAborted(s)
    /\ send_task[s] \in {"changed", "send"}
    /\ msg' = [msg EXCEPT ![s] = NoMsg]
    /\ send_task' = [send_task EXCEPT ![s] = "cancelled"]
    /\ UNCHANGED <<rx, wire, reads>>
    /\ UNCHANGED <<sessionVars, recvVars, chanVars>>
    /\ UNCHANGED dbVars

\* ------------------------------------------------------------- recv_task
AfterFrame_TextBreaks(kind) == IF kind = "text" THEN "done" ELSE "next"

\* the match arms Message::Text (debug log, no break) and `_ => {}`
AfterFrame(kind) == "next"

\* receiver.next().await yields Some(Ok(msg)) with a Text frame (logged) or
\* another non-close frame (ignored): the loop goes back to next()
RecvFrame(s, kind) ==
    /\ recv_task[s] = "next"
    /\ kind \in {"text", "other"}
    /\ recv_task' = [recv_task EXCEPT ![s] = AfterFrame(kind)]
    /\ UNCHANGED <<sessionVars, sendVars, chanVars>>
    /\ UNCHANGED dbVars

\* receiver.next().await yields Some(Ok(Message::Close(_))): break
RecvClose(s) ==
    /\ recv_task[s] = "next"
    /\ recv_task' = [recv_task EXCEPT ![s] = "done"]
    /\ UNCHANGED <<sessionVars, sendVars, chanVars>>
    /\ UNCHANGED dbVars

\* receiver.next().await yields None or Some(Err(_)): the while let ends
RecvEnd(s) ==
    /\ recv_task[s] = "next"
    /\ recv_task' = [recv_task EXCEPT ![s] = "done"]
    /\ UNCHANGED <<sessionVars, sendVars, chanVars>>
    /\ UNCHANGED dbVars

\* the aborted recv_task is dropped at receiver.next().await
CancelRecv(s) ==
    /\ RecvAborted(s)
    /\ recv_task[s] = "next"
    /\ recv_task' = [recv_task EXCEPT ![s] = "cancelled"]
    /\ UNCHANGED <<sessionVars, sendVars, chanVars>>
    /\ UNCHANGED dbVars

\* ---------------------------------------------------------- specification
SendTaskStep(s) ==
    \/ Changed(s)
    \/ ChangedClosed(s)
    \/ Borrow(s)
    \/ SendOk(s)
    \/ SendErr(s)
    \/ CancelSend(s)

SessionStep(s) ==
    \/ LockIncrement(s)
    \/ Increment(s)
    \/ Spawn(s)
    \/ SelectSendTask(s)
    \/ SelectRecvTask(s)
    \/ LockDecrement(s)
    \/ Decrement(s)

RecvTaskStep(s) ==
    \/ \E kind \in {"text", "other"} : RecvFrame(s, kind)
    \/ RecvClose(s)
    \/ RecvEnd(s)
    \/ CancelRecv(s)

Next ==
    \/ Publish
    \/ DropSender
    \/ \E s \in Sessions : SessionStep(s)
    \/ \E s \in Sessions : SendTaskStep(s)
    \/ \E s \in Sessions : RecvTaskStep(s)

Spec == Init /\ [][Next]_vars

\* the same program with the webhook called at most LivePublish times
PublishLive == Len(published) < LivePublish /\ Publish

NextLive ==
    \/ PublishLive
    \/ DropSender
    \/ \E s \in Sessions : SessionStep(s)
    \/ \E s \in Sessions : SendTaskStep(s)
    \/ \E s \in Sessions : RecvTaskStep(s)

\* the decrement block of websocket() applied to every stored count, the
\* count 0 included: every session has left select! and is about to lock
InitDecrement ==
    /\ clients_count \in 0..MaxCount
    /\ holder = {}
    /\ count = [s \in Sessions |-> 0]
    /\ pc = [s \in Sessions |-> "disconnect"]
    /\ winner = [s \in Sessions |-> "send_task"]
    /\ send_task = [s \in Sessions |-> "done"]
    /\ recv_task = [s \in Sessions |-> "cancelled"]
    /\ msg = [s \in Sessions |-> NoMsg]
    /\ wire = [s \in Sessions |-> <<>>]
    /\ slot = initial_message
    /\ version = 0
    /\ rx = [s \in Sessions |-> CloneVersion]
    /\ tx = TRUE
    /\ refs = {}
    /\ published = <<>>
    /\ response = 0
    /\ reads = [s \in Sessions |-> <<>>]
    /\ decrements = [s \in Sessions |-> 0]
    /\ inStep = [s \in Sessions |-> TRUE]
    /\ encrypted_blob = 0
    /\ inserts = 0
    /\ result = NoResult

NextDecrement ==
    \/ \E s \in Sessions : LockDecrement(s)
    \/ \E s \in Sessions : Decrement(s)

DecrementSpec == InitDecrement /\ [][NextDecrement]_vars

\* create_blob called once with a blob of every length up to MaxBlobLen
InitBlob ==
    /\ clients_count = 0
    /\ holder = {}
    /\ count = [s \in Sessions |-> 0]
    /\ pc = [s \in Sessions |-> "connect"]
    /\ winner = [s \in Sessions |-> "none"]
    /\ send_task = [s \in Sessions |-> "none"]
    /\ recv_task = [s \in Sessions |-> "none"]
    /\ msg = [s \in Sessions |-> NoMsg]
    /\ wire = [s \in Sessions |-> <<>>]
    /\ slot = initial_message
    /\ version = 0
    /\ rx = [s \in Sessions |-> CloneVersion]
    /\ tx = TRUE
    /\ refs = {}
    /\ published = <<>>
    /\ response = 0
    /\ reads = [s \in Sessions |-> <<>>]
    /\ decrements = [s \in Sessions |-> 0]
    /\ inStep = [s \in Sessions |-> TRUE]
    /\ encrypted_blob \in 0..MaxBlobLen
    /\ inserts = 0
    /\ result = NoResult

NextBlob == create_blob

BlobSpec == InitBlob /\ [][NextBlob]_vars

\* the tokio scheduler runs every runnable task and every wire send resolves
FairSpec ==
    Init /\ [][NextLive]_vars /\ \A s \in Sessions : WF_vars(SendTaskStep(s))

\* FairSpec, and every websocket() future is polled when it can go on
FairSessionSpec ==
    /\ FairSpec
    /\ \A s \in Sessions : WF_vars(SessionStep(s))

\* FairSessionSpec, and a task that was aborted while parked in
\* receiver.next() is woken and dropped by the runtime
FairAbortSpec ==
    /\ FairSessionSpec
    /\ \A s \in Sessions : WF_vars(CancelRecv(s))

\* ----------------------------------------------------------------- claims
Started == {s \in Sessions : pc[s] \notin {"connect", "increment"}}
Ended == {s \in Sessions : pc[s] = "closed"}
Settled == \A s \in Sessions : pc[s] \notin {"increment", "decrement"}
Running(s) == send_task[s] \in {"changed", "borrow", "send"}
Stopped(task) == task \in {"done", "cancelled"}
Indices(s) == [i \in DOMAIN wire[s] |-> PublishIndex(wire[s][i])]
PrevRead(s, i) == IF i = 1 THEN 0 ELSE reads[s][i - 1]

\* C1: once no increment or decrement is in progress, clients_count equals
\* the number of sessions that started minus the number that ended
C1_CountCorrect ==
    Settled => clients_count = Cardinality(Started) - Cardinality(Ended)

C1_Witness ==
    /\ Settled
    /\ Cardinality(Started) >= 2
    /\ Cardinality(Ended) >= 1
    /\ Cardinality(Ended) < Cardinality(Started)

\* C2: a session never decrements twice, and it has returned exactly when
\* it has decremented once, whichever select! branch ended it
C2_DecrementOnce ==
    \A s \in Sessions :
        /\ decrements[s] <= 1
        /\ (pc[s] = "closed") <=> (decrements[s] = 1)
        /\ (pc[s] = "closed") => winner[s] \in {"send_task", "recv_task"}

C2_Witness ==
    \E s \in Sessions :
        /\ pc[s] = "closed"
        /\ send_task[s] = "done"
        /\ recv_task[s] = "done"
        /\ decrements[s] = 1

\* C3: the frames a session writes are non-decreasing in publish order
C3_NoStaleAfterNewer ==
    \A s \in Sessions : \A i, j \in DOMAIN wire[s] :
        i < j => Indices(s)[i] <= Indices(s)[j]

C3_Witness ==
    \E s \in Sessions :
        /\ Len(wire[s]) >= 2
        /\ Indices(s)[1] < Indices(s)[Len(wire[s])]

\* C4: no session writes two frames for the same publish
C4_NoDuplicateFrame ==
    \A s \in Sessions : \A i, j \in DOMAIN wire[s] :
        i < j => Indices(s)[i] # Indices(s)[j]

\* C5: a running outbound loop eventually writes each publish or a later
\* one; a loop that is parked and up to date has written the last publish
C5_EventuallyDelivered ==
    /\ \A s \in Sessions : \A k \in 1..LivePublish :
           (Len(published) >= k /\ Running(s))
               ~> (~Running(s) \/ \E i \in DOMAIN wire[s] : Indices(s)[i] >= k)
    /\ [](\A s \in Sessions :
           (send_task[s] = "changed" /\ rx[s] = version /\ version > 0)
               => /\ wire[s] # <<>>
                  /\ Indices(s)[Len(wire[s])] = Len(published))

C5_Witness ==
    \E s \in Sessions :
        /\ send_task[s] = "changed"
        /\ rx[s] = version
        /\ Len(published) = LivePublish
        /\ Len(wire[s]) >= 2
        /\ Indices(s)[Len(wire[s])] = Len(published)

\* C6: every frame is the latest publish at the time of its rx.borrow(), and
\* the publishes that piled up before that read are never written
C6_Coalescing ==
    \A s \in Sessions :
        /\ \A i \in DOMAIN wire[s] : Indices(s)[i] = reads[s][i]
        /\ \A i \in DOMAIN reads[s] : \A k \in 1..Len(published) :
               (PrevRead(s, i) < k /\ k < reads[s][i])
                   => \A j \in DOMAIN wire[s] : Indices(s)[j] # k

C6_Witness ==
    \E s \in Sessions : \E i \in DOMAIN wire[s] :
        /\ reads[s][i] - PrevRead(s, i) >= 3
        /\ Indices(s)[i] = reads[s][i]

\* C7: a loop that completed an iteration between every two publishes wrote
\* every publish once, in publish order
C7_LockStep ==
    \A s \in Sessions :
        inStep[s] =>
            /\ \A i \in DOMAIN wire[s] : Indices(s)[i] = i
            /\ CompletedIteration(s) => Len(wire[s]) = Len(published)

C7_Witness ==
    \E s \in Sessions :
        /\ inStep[s]
        /\ CompletedIteration(s)
        /\ Len(published) = MaxPublish
        /\ Len(wire[s]) = MaxPublish

\* C8: while the sender is alive a publish is enabled, whatever the sessions do
C8_PublishNeverBlocked ==
    (tx /\ Len(published) < MaxPublish) => ENABLED Publish

C8_Witness ==
    /\ tx
    /\ Len(published) < MaxPublish
    /\ \E s \in Sessions :
           /\ send_task[s] = "send"
           /\ msg[s].timestamp < slot.timestamp
    /\ \E s \in Sessions : send_task[s] = "changed" /\ rx[s] # version

\* C9: tx.send never returns Err: the handler never answers 500
C9_PublishInfallible == response \in {0, 200}

C9_Witness ==
    /\ response = 200
    /\ Len(published) = MaxPublish
    /\ \A s \in Sessions : pc[s] = "connect"

\* C10: a session that has decremented has both of its tasks stopped
C10_DecrementAfterLoopsStopped ==
    \A s \in Sessions :
        decrements[s] > 0 => Stopped(send_task[s]) /\ Stopped(recv_task[s])

\* C11: clients_count is never negative and always equals the number of
\* sessions whose increment is stored and whose decrement is not
Counted == {s \in Sessions : pc[s] \in {"spawn", "select", "disconnect", "decrement"}}

C11_CountIsLiveSessions ==
    /\ clients_count >= 0
    /\ clients_count = Cardinality(Counted)

C11_Witness ==
    /\ clients_count = 1
    /\ \E s, t \in Sessions :
           /\ pc[s] = "increment"
           /\ pc[t] = "select"

C13_CloneSeededWithCurrent ==
    [][\A s \in Sessions :
          (pc[s] = "spawn" /\ pc'[s] = "select")
              => rx'[s] = version']_vars

\* C14: once the sender is dropped every running outbound loop ends, and
\* clients_count comes back to zero
C14_ShutdownDrains ==
    /\ \A s \in Sessions : (~tx /\ Running(s)) ~> ~Running(s)
    /\ ~tx ~> (clients_count = 0)

C14_Witness ==
    /\ ~tx
    /\ published = <<>>
    /\ clients_count = 0
    /\ \E s \in Sessions :
           /\ pc[s] = "closed"
           /\ send_task[s] = "done"
           /\ winner[s] = "send_task"
           /\ recv_task[s] = "cancelled"

\* C15: a failed send ends the loop of its own session for good and changes
\* nothing of any other session; that session's select! aborts its recv_task
\* (if still reading) and its decrement takes one off the count; the other sessions' loops go on
\* to write the later publishes
C15_SendFailureLocal ==
    /\ [][\A s \in Sessions :
             /\ (send_task[s] = "send" /\ send_task'[s] = "done")
                    => /\ wire'[s] = wire[s]
                       /\ \A t \in Sessions \ {s} :
                              /\ send_task'[t] = send_task[t]
                              /\ recv_task'[t] = recv_task[t]
                              /\ rx'[t] = rx[t]
                              /\ wire'[t] = wire[t]
                              /\ pc'[t] = pc[t]
                       /\ clients_count' = clients_count
             /\ send_task[s] = "done"
                    => (send_task'[s] = "done" /\ wire'[s] = wire[s])
             /\ (send_task[s] = "done" /\ pc[s] = "select" /\ pc'[s] # "select")
                    => /\ pc'[s] = "disconnect"
                       /\ recv_task[s] = "next" => RecvAborted(s)'
             /\ (pc[s] = "decrement" /\ pc'[s] # "decrement")
                    => clients_count' = clients_count - 1]_vars
    /\ \A s \in Sessions : \A t \in Sessions \ {s} : \A k \in 1..LivePublish :
           (tx /\ send_task[s] = "done" /\ Running(t) /\ Len(published) >= k)
               ~> (~Running(t) \/ \E i \in DOMAIN wire[t] : Indices(t)[i] >= k)

C15_Witness ==
    \E s \in Sessions : \E t \in Sessions \ {s} :
        /\ tx
        /\ send_task[s] = "done"
        /\ wire[s] = <<>>
        /\ pc[s] = "closed"
        /\ recv_task[s] = "cancelled"
        /\ Running(t)
        /\ Len(wire[t]) >= 2
        /\ Indices(t)[Len(wire[t])] = LivePublish

\* C16: while a session's send_task is inside its wire send, every other
\* session's send_task can take its next step (see a new version, read the
\* slot, complete its own send) and the handler can publish
C16_SendBlocksNoOther ==
    \A s \in Sessions : \A t \in Sessions \ {s} :
        send_task[s] = "send" =>
            /\ (send_task[t] = "changed" /\ rx[t] # version) => ENABLED Changed(t)
            /\ send_task[t] = "borrow" => ENABLED Borrow(t)
            /\ send_task[t] = "send" => ENABLED SendOk(t)
            /\ (tx /\ Len(published) < MaxPublish) => ENABLED Publish

C16_Witness ==
    \E s \in Sessions : \E t \in Sessions \ {s} :
        /\ send_task[s] = "send"
        /\ msg[s].timestamp = 1
        /\ wire[s] = <<>>
        /\ send_task[t] = "send"
        /\ Len(wire[t]) >= 2
        /\ Indices(t)[Len(wire[t])] > 1

\* C17: once a session's decrement is applied it writes no frame for a
\* publish made after that
C17_NoFrameAfterDisconnect ==
    \A s \in Sessions : \A k \in 1..LivePublish :
        [](  (decrements[s] > 0 /\ Len(published) < k)
          => [](\A i \in DOMAIN wire[s] : Indices(s)[i] # k))

\* C18: every frame a session writes is the text of a message that went
\* through helius_webhook_handler, field for field; the Status the channel
\* was created with is never written
C18_OnlyPublishedFrames ==
    \A s \in Sessions : \A i \in DOMAIN wire[s] :
        /\ \E k \in DOMAIN published : wire[s][i] = to_text(published[k])
        /\ wire[s][i] # to_text(initial_message)
        /\ wire[s][i][2] = "transaction"
        /\ wire[s][i][4] \in Payloads

C18_Witness ==
    /\ Len(published) = MaxPublish
    /\ \E s \in Sessions :
           /\ pc[s] = "select"
           /\ Len(wire[s]) = MaxPublish
           /\ \A i \in DOMAIN wire[s] : wire[s][i] = to_text(published[i])

\* C19: create_blob answers "Blob too large" and sends no INSERT for every
\* blob longer than MAX_BLOB_SIZE; for every blob up to MAX_BLOB_SIZE it
\* sends the INSERT, and then fails only with "Failed to create blob"
C19_BlobSizeCheck ==
    result # NoResult =>
        /\ encrypted_blob > MAX_BLOB_SIZE
               => /\ result = BlobTooLarge(encrypted_blob)
                  /\ inserts = 0
        /\ encrypted_blob <= MAX_BLOB_SIZE
               => /\ inserts = 1
                  /\ result.error # "Blob too large"
                  /\ ~result.ok => result.error = "Failed to create blob"

C19_Witness ==
    /\ encrypted_blob = MAX_BLOB_SIZE
    /\ inserts = 1
    /\ result = FailedToCreate

\* the session state of the state machine, read off websocket()'s position
\* and its two loops
SessionState(s) ==
    IF pc[s] \in {"connect", "increment"} THEN "Connecting"
    ELSE IF pc[s] = "closed" THEN "Closed"
    ELSE IF /\ pc[s] \in {"spawn", "select"}
            /\ send_task[s] # "done"
            /\ recv_task[s] # "done" THEN "Active"
    ELSE "Closing"

Successor(st) ==
    CASE st = "Connecting" -> "Active"
      [] st = "Active" -> "Closing"
      [] st = "Closing" -> "Closed"
      [] st = "Closed" -> "Closed"

\* C20: every step leaves a session's state alone or moves it to the next of
\* Connecting, Active, Closing, Closed; Active is entered by the increment,
\* Closing by the first loop that ends, Closed by the decrement, and nothing
\* of a Closed session's own position changes again
C20_SessionStateMachine ==
    [][\A s \in Sessions :
          /\ SessionState(s)' \in {SessionState(s), Successor(SessionState(s))}
          /\ (SessionState(s) = "Connecting" /\ SessionState(s)' = "Active")
                 <=> (pc[s] = "increment" /\ clients_count' = count[s] + 1)
          /\ (SessionState(s) = "Active" /\ SessionState(s)' = "Closing")
                 <=> /\ pc[s] = "select"
                     /\ SessionState(s) = "Active"
                     /\ send_task'[s] = "done" \/ recv_task'[s] = "done"
          /\ (SessionState(s) = "Closing" /\ SessionState(s)' = "Closed")
                 <=> decrements'[s] = decrements[s] + 1
          /\ SessionState(s) = "Closed"
                 => (pc'[s] = "closed" /\ decrements'[s] = decrements[s])]_vars

C20_Witness ==
    \E s \in Sessions : \E t \in Sessions \ {s} :
        /\ SessionState(s) = "Closed"
        /\ decrements[s] = 1
        /\ SessionState(t) = "Closing"
        /\ pc[t] = "select"
        /\ wire[t] # <<>>

\* C21: a session leaves Active only by a step in which its recv_task gets
\* Close, an error or the end of the stream, its wire send fails, or its
\* changed() finds the channel closed; while it is Active and past spawn both
\* loops run; a text or other non-close frame changes neither the loops nor
\* clients_count
C21_ActiveExits ==
    /\ [](\A s \in Sessions :
            (SessionState(s) = "Active" /\ pc[s] = "select")
                => (Running(s) /\ recv_task[s] = "next"))
    /\ [][\A s \in Sessions :
             /\ (SessionState(s) = "Active" /\ SessionState(s)' # "Active")
                    => \/ RecvClose(s)
                       \/ RecvEnd(s)
                       \/ SendErr(s)
                       \/ ChangedClosed(s)
             /\ \A kind \in {"text", "other"} :
                    RecvFrame(s, kind)
                        => /\ SessionState(s)' = SessionState(s)
                           /\ recv_task'[s] = recv_task[s]
                           /\ send_task'[s] = send_task[s]
                           /\ clients_count' = clients_count]_vars

C21_Witness ==
    \E s \in Sessions : \E t \in Sessions \ {s} :
        /\ tx
        /\ pc[s] = "select"
        /\ send_task[s] = "done"
        /\ recv_task[s] = "next"
        /\ pc[t] = "select"
        /\ recv_task[t] = "done"
        /\ Running(t)
        /\ clients_count = NumSessions

\* C22: once one loop of a session has ended, select! aborts the other and
\* both loops are eventually stopped, whichever ended first
C22_NoLeakedTask ==
    \A s \in Sessions :
        /\ (send_task[s] = "done" /\ recv_task[s] = "next")
               ~> Stopped(recv_task[s])
        /\ (recv_task[s] = "done" /\ Running(s))
               ~> Stopped(send_task[s])
        /\ SessionState(s) = "Closing"
               ~> (winner[s] # "none" /\ Stopped(send_task[s]) /\ Stopped(recv_task[s]))

C22_Witness ==
    \E s \in Sessions : \E t \in Sessions \ {s} :
        /\ send_task[s] = "done"
        /\ recv_task[s] = "cancelled"
        /\ winner[s] = "send_task"
        /\ recv_task[t] = "done"
        /\ send_task[t] = "cancelled"
        /\ winner[t] = "recv_task"

\* sessions whose loops were spawned and whose decrement is not yet applied
Spawned == {s \in Sessions : send_task[s] # "none" /\ decrements[s] = 0}

\* C23: while a session's increment is pending it has no loops, has read
\* nothing from the channel and has written no frame; every session whose
\* loops exist is already counted in clients_count
C23_IncrementBeforeLoop ==
    /\ \A s \in Sessions :
           pc[s] \in {"connect", "increment"}
               => /\ send_task[s] = "none"
                  /\ recv_task[s] = "none"
                  /\ rx[s] = CloneVersion
                  /\ reads[s] = <<>>
                  /\ wire[s] = <<>>
    /\ Cardinality(Spawned) <= clients_count

C23_Witness ==
    \E s \in Sessions : \E t \in Sessions \ {s} :
        /\ pc[s] = "increment"
        /\ send_task[s] = "none"
        /\ Len(published) = MaxPublish
        /\ Len(wire[t]) = MaxPublish

\* C24: a session one of whose loops has ended eventually is Closed with its
\* decrement applied, also when another session holds the clients_count
\* mutex at the time it wants to lock
C24_ClosingReachesClosed ==
    \A s \in Sessions :
        /\ SessionState(s) = "Closing"
               ~> (SessionState(s) = "Closed" /\ decrements[s] = 1)
        /\ (pc[s] = "disconnect" /\ ~MutexFree) ~> (s \in holder)

C24_Witness ==
    \E s \in Sessions : \E t \in Sessions \ {s} :
        /\ pc[s] = "disconnect"
        /\ pc[t] = "decrement"
        /\ t \in holder
        /\ ~(ENABLED LockDecrement(s))

====
